---- MODULE Spec2Model ----
(***************************************************************************)
(* A model of the Job Trends API (backend/app.py, backend/models.py,       *)
(* backend/db.py, backend/schemas.py): the relational store with its       *)
(* unique and foreign-key constraints, the SQLAlchemy unit of work the     *)
(* handlers drive (autoflush=False, commit = flush + COMMIT), and the six  *)
(* request handlers that open a session.                                   *)
(*                                                                         *)
(* Store: MySQL/InnoDB at its default isolation level (REPEATABLE READ):   *)
(* a transaction's plain SELECTs all read the snapshot taken by its first  *)
(* SELECT, while constraint checks of INSERT/DELETE see the latest         *)
(* committed rows.  A handler step that starts a transaction therefore     *)
(* performs every read the handler makes in that transaction.  A flush +   *)
(* COMMIT is one step: InnoDB holds the row locks of the flush up to the   *)
(* COMMIT, so no other transaction observes or overtakes half of it.       *)
(*                                                                         *)
(* Fields of Job that no handler but the projection reads (max_salary,     *)
(* experience_level, job_category, employment_type, salary_currency, ...)  *)
(* are copied through by the code and are left out of the rows here.       *)
(***************************************************************************)
EXTENDS Integers, Sequences, FiniteSets, TLC

VARIABLES
    companies,   \* rows of table companies: [company_id, company_name]
    skills,      \* rows of table skills: [skill_id, skill_name]
    jobs,        \* rows of table jobs
    job_skills,  \* rows of the association table: [job_id, skill_id]
    autoinc,     \* the AUTO_INCREMENT counter of each table
    pc,          \* per worker: where its handler stands
    call,        \* per worker: the request it serves (handler and inputs)
    session,     \* per worker: "none" | "open" | "closed" (SessionLocal() / db.close())
    local,       \* per worker: the handler's local variables
    response,    \* per worker: what the handler returned or raised
    served       \* number of requests accepted so far

vars == <<companies, skills, jobs, job_skills, autoinc, pc, call, session, local,
          response, served>>

store_vars == <<companies, skills, jobs, job_skills, autoinc>>

----------------------------------------------------------------------------
(* Bounds of the model.                                                    *)

\* Requests accepted in one behaviour of the read/write specifications.
MaxRequests == 2

\* Rows of table jobs in the initial stores of the read-only specifications.
MaxSeedJobs == 3

\* The worker threads of the HTTP server that serve requests concurrently.
Workers == {"w1", "w2"}

----------------------------------------------------------------------------
(* Optional values (Python None / SQL NULL).                               *)

None == <<>>
Some(v) == <<v>>

Range(s) == {s[i] : i \in 1..Len(s)}

----------------------------------------------------------------------------
(* The store as one value, and the constraints of models.py.               *)

Db == [companies |-> companies, skills |-> skills, jobs |-> jobs,
       job_skills |-> job_skills, autoinc |-> autoinc]

EmptyDb == [companies |-> {}, skills |-> {}, jobs |-> {}, job_skills |-> {},
            autoinc |-> [companies |-> 1, skills |-> 1, jobs |-> 1]]

\* db.query(models.Company).filter_by(company_name=name): name None is IS NULL.
FindCompanyMiss(db, name) == {}
FindCompany(db, name) == {c \in db.companies : c.company_name = name}

\* db.query(models.Skill).filter_by(skill_name=name)
FindSkill(db, name) == {s \in db.skills : s.skill_name = name}

\* db.query(models.Job).filter_by(job_id=id)
FindJobUnfiltered(db, id) == db.jobs
FindJob(db, id) == {j \in db.jobs : j.job_id = id}

\* The UNIQUE index on companies.company_name; NULL names never collide.
CompanyNameTakenNoCheck(db, name) == FALSE
CompanyNameTaken(db, name) ==
    name # None /\ \E c \in db.companies : c.company_name = name

\* The UNIQUE index on skills.skill_name.
SkillNameTaken(db, name) == \E s \in db.skills : s.skill_name = name

\* A failed flush is rolled back; InnoDB does not give back the
\* AUTO_INCREMENT values the failed INSERTs consumed.
RollbackKeepsWrites(before, failed) == failed
Rollback(before, failed) == [before EXCEPT !.autoinc = failed.autoinc]

\* INSERT INTO companies: [ok, db, id].
InsertCompany(db, name) ==
    LET id == db.autoinc.companies
        bumped == [db EXCEPT !.autoinc.companies = id + 1]
    IN  IF CompanyNameTaken(db, name)
        THEN [ok |-> FALSE, db |-> bumped, id |-> 0]
        ELSE [ok |-> TRUE,
              db |-> [bumped EXCEPT !.companies =
                         @ \cup {[company_id |-> id, company_name |-> name]}],
              id |-> id]

\* What a skill lookup of the handler leaves in job.skills: a loaded row of
\* table skills, or a pending models.Skill(skill_name=name) added to the session.
RowRef(s) == [new |-> FALSE, id |-> s.skill_id, name |-> s.skill_name]
NewRef(name) == [new |-> TRUE, id |-> 0, name |-> name]

\* The loop `for skill_name in job.skills` of create_job and update_job.  With
\* autoflush=False a pending Skill is invisible to the next query, so a name
\* repeated in the payload yields two pending objects.
LookupSkills(db, names) ==
    [i \in 1..Len(names) |->
        IF FindSkill(db, names[i]) = {}
        THEN NewRef(names[i])
        ELSE RowRef(CHOOSE s \in FindSkill(db, names[i]) : TRUE)]

\* The flush's INSERTs of the pending skills, in the order they were added:
\* [ok, db, ids], ids the skill_id of every element of job.skills.
RECURSIVE InsertSkills(_, _, _)
InsertSkills(db, refs, ids) ==
    IF Len(ids) = Len(refs)
    THEN [ok |-> TRUE, db |-> db, ids |-> ids]
    ELSE LET ref == refs[Len(ids) + 1]
             id == db.autoinc.skills
             bumped == [db EXCEPT !.autoinc.skills = id + 1]
         IN  IF ~ref.new
             THEN InsertSkills(db, refs, Append(ids, ref.id))
             ELSE IF SkillNameTaken(db, ref.name)
             THEN [ok |-> FALSE, db |-> bumped, ids |-> ids]
             ELSE InsertSkills(
                      [bumped EXCEPT !.skills =
                          @ \cup {[skill_id |-> id, skill_name |-> ref.name]}],
                      refs, Append(ids, id))

\* The flush's INSERTs into job_skills of the elements added to job.skills
\* (one row per element: an element appended twice is inserted twice).  The
\* composite primary key and the two foreign keys decide: [ok, db].
InsertJobSkills(db, job_id, added) ==
    LET rows == {[job_id |-> job_id, skill_id |-> added[i]] : i \in 1..Len(added)}
        dup == \/ Cardinality(rows) # Len(added)
               \/ rows \cap db.job_skills # {}
        fk == /\ FindJob(db, job_id) # {}
              /\ \A i \in 1..Len(added) : \E s \in db.skills : s.skill_id = added[i]
    IN  IF dup \/ ~fk
        THEN [ok |-> FALSE, db |-> db]
        ELSE [ok |-> TRUE, db |-> [db EXCEPT !.job_skills = @ \cup rows]]

----------------------------------------------------------------------------
(* Requests, handler locals and responses.                                 *)

\* schemas.JobCreate, restricted to the fields the model keeps.
JobCreate(title, loc, min_sal, company, setting, year, size, names) ==
    [job_title |-> title, location |-> loc, min_salary |-> min_sal,
     company_name |-> company, work_setting |-> setting, work_year |-> year,
     company_size |-> size, skills |-> names]

NoJob == JobCreate(<<>>, <<>>, None, None, None, None, None, <<>>)

NoCall == [handler |-> "none", job_id |-> 0, job |-> NoJob, search |-> None,
           skip |-> 0, limit |-> 0, faults |-> {}]

\* company, job.skills as built by the loop, job.skills as loaded; `queried`
\* notes that a read handler has sent its query to the store, `created` that
\* the handler took the `if not company:` branch and its commit succeeded.
NoLocal == [company |-> 0, refs |-> <<>>, orig |-> {}, queried |-> FALSE,
            created |-> FALSE]

NoResponse == [status |-> 0, body |-> None]

\* HTTPException(status_code=..., detail=...); for a 500 raised by
\* `except Exception as e` the detail is str(e), here the exception's class.
HTTPException(status, detail) == [status |-> status, body |-> Some(detail)]

\* A handler's return value, sent with status 200.
Ok(body) == [status |-> 200, body |-> body]

\* `job.work_year or 2024`
DEFAULT_WORK_YEAR == 2024
WorkYearOrDefault(y) ==
    IF y = None \/ y = Some(0) THEN Some(DEFAULT_WORK_YEAR) ELSE y

\* The row of table jobs that create_job and update_job write.
JobRow(id, company_id, job) ==
    [job_id |-> id, company_id |-> Some(company_id), job_title |-> job.job_title,
     location |-> job.location, min_salary |-> job.min_salary,
     work_year |-> WorkYearOrDefault(job.work_year),
     work_setting |-> job.work_setting, company_size |-> job.company_size]

\* job.skills as loaded from the store: the skill ids associated with a job.
SkillIdsOf(db, job_id) == {a.skill_id : a \in {b \in db.job_skills : b.job_id = job_id}}

SkillNamesOf(db, job_id) ==
    {s.skill_name : s \in {t \in db.skills : t.skill_id \in SkillIdsOf(db, job_id)}}

CompanyNameOf(db, company_id) ==
    IF company_id = None \/ ~\E c \in db.companies : c.company_id = company_id[1]
    THEN None
    ELSE (CHOOSE c \in db.companies : c.company_id = company_id[1]).company_name

\* The `result` dict of create_job and update_job, built after db.refresh.
JobResult(db, job_id) ==
    LET j == CHOOSE r \in db.jobs : r.job_id = job_id
    IN  [job_id |-> job_id, job_title |-> j.job_title, location |-> j.location,
         min_salary |-> j.min_salary,
         company |-> CompanyNameOf(db, j.company_id),
         skills |-> SkillNamesOf(db, job_id)]

\* get_db(): the session, or None when SessionLocal() raises.
get_db(db_ok) == IF db_ok THEN "open" ELSE "none"

\* The store after a step: every table and counter from one value.
SetStore(db) ==
    /\ companies' = db.companies
    /\ skills' = db.skills
    /\ jobs' = db.jobs
    /\ job_skills' = db.job_skills
    /\ autoinc' = db.autoinc

\* A worker accepts a request.
Accept(w, c) ==
    /\ pc[w] = "idle"
    /\ served < MaxRequests
    /\ served' = served + 1
    /\ call' = [call EXCEPT ![w] = c]

\* The handler leaves (return or raise); `finally: db.close()` has run when a
\* session was obtained.
db_close_leak(sess) == sess
db_close(sess) == IF sess = "open" THEN "closed" ELSE sess

Leave(w, resp) ==
    /\ pc' = [pc EXCEPT ![w] = "done"]
    /\ response' = [response EXCEPT ![w] = resp]
    /\ session' = [session EXCEPT ![w] = db_close(get_db(TRUE))]

\* `if not db: raise HTTPException(status_code=500, ...)` of the mutations.
NoSession(w) ==
    /\ pc' = [pc EXCEPT ![w] = "done"]
    /\ response' = [response EXCEPT ![w] =
           HTTPException(500, "Database connection failed")]
    /\ session' = [session EXCEPT ![w] = get_db(FALSE)]
    /\ UNCHANGED <<store_vars, local>>

----------------------------------------------------------------------------
(* POST /jobs                                                              *)

\* Lines 259-266: the session, the company query, and, when the company
\* exists, the skill queries of the same transaction.
create_job_begin(w, job, db_ok) ==
    /\ Accept(w, [NoCall EXCEPT !.handler = "create_job", !.job = job])
    /\ IF ~db_ok
       THEN NoSession(w)
       ELSE /\ session' = [session EXCEPT ![w] = get_db(TRUE)]
            /\ UNCHANGED <<store_vars, response>>
            /\ IF FindCompany(Db, job.company_name) = {}
               THEN /\ pc' = [pc EXCEPT ![w] = "company"]
                    /\ UNCHANGED local
               ELSE \E c \in FindCompany(Db, job.company_name) :
                    /\ pc' = [pc EXCEPT ![w] = "flush"]
                    /\ local' = [local EXCEPT ![w] =
                           [NoLocal EXCEPT !.company = c.company_id,
                                           !.refs = LookupSkills(Db, job.skills)]]

\* Lines 267-270 (and 339-342 of update_job): db.add(company); db.commit().
\* A duplicate key raises IntegrityError: rollback, 500.
CommitCompany(w) ==
    LET ins == InsertCompany(Db, call[w].job.company_name)
    IN  /\ pc[w] = "company"
        /\ UNCHANGED <<call, served>>
        /\ IF ins.ok
           THEN /\ SetStore(ins.db)
                /\ pc' = [pc EXCEPT ![w] = "skills"]
                /\ local' = [local EXCEPT ![w].company = ins.id,
                                          ![w].created = TRUE]
                /\ UNCHANGED <<session, response>>
           ELSE /\ SetStore(Rollback(Db, ins.db))
                /\ Leave(w, HTTPException(500, "IntegrityError"))
                /\ UNCHANGED local

create_job_company(w) ==
    /\ call[w].handler = "create_job"
    /\ CommitCompany(w)

\* Lines 288-294 after the company commit: the skill queries open a new
\* transaction.
create_job_skills(w) ==
    /\ pc[w] = "skills"
    /\ call[w].handler = "create_job"
    /\ pc' = [pc EXCEPT ![w] = "flush"]
    /\ local' = [local EXCEPT ![w].refs = LookupSkills(Db, call[w].job.skills)]
    /\ UNCHANGED <<store_vars, call, session, response, served>>

\* Lines 297-298: db.add(new_job); db.commit() as [ok, db, job_id].
FlushNewJob(db, company_id, job, refs) ==
    LET sk == InsertSkills(db, refs, <<>>)
        id == sk.db.autoinc.jobs
        withJob == [sk.db EXCEPT !.autoinc.jobs = id + 1,
                                 !.jobs = @ \cup {JobRow(id, company_id, job)}]
        assoc == InsertJobSkills(withJob, id, sk.ids)
    IN  IF ~sk.ok \/ ~assoc.ok
        THEN [ok |-> FALSE, db |-> Rollback(db, IF sk.ok THEN withJob ELSE sk.db),
              job_id |-> 0, error |-> "IntegrityError"]
        ELSE [ok |-> TRUE, db |-> assoc.db, job_id |-> id, error |-> ""]

\* Lines 297-319: the commit, the refresh, the result; or rollback and 500.
create_job_flush(w) ==
    LET fl == FlushNewJob(Db, local[w].company, call[w].job, local[w].refs)
    IN  /\ pc[w] = "flush"
        /\ call[w].handler = "create_job"
        /\ SetStore(fl.db)
        /\ Leave(w, IF fl.ok THEN Ok(JobResult(fl.db, fl.job_id))
                    ELSE HTTPException(500, fl.error))
        /\ UNCHANGED <<call, local, served>>

----------------------------------------------------------------------------
(* PUT /jobs/{job_id}                                                      *)

\* What update_job reads in the transaction that loads existing_job.skills:
\* the collection as stored (line 357) and the skill lookups (lines 359-364).
UpdateLocals(db, job_id, job, company_id) ==
    [NoLocal EXCEPT !.company = company_id,
                    !.refs = LookupSkills(db, job.skills),
                    !.orig = SkillIdsOf(db, job_id)]

\* Lines 326-337: the session, the job query (404 when absent), the company
\* query, and, when the company exists, lines 345-364 in the same transaction.
update_job_begin(w, job_id, job, db_ok) ==
    /\ Accept(w, [NoCall EXCEPT !.handler = "update_job", !.job_id = job_id,
                                !.job = job])
    /\ IF ~db_ok
       THEN NoSession(w)
       ELSE IF FindJob(Db, job_id) = {}
       THEN /\ Leave(w, HTTPException(404, "Job not found"))
            /\ UNCHANGED <<store_vars, local>>
       ELSE /\ session' = [session EXCEPT ![w] = get_db(TRUE)]
            /\ UNCHANGED <<store_vars, response>>
            /\ IF FindCompany(Db, job.company_name) = {}
               THEN /\ pc' = [pc EXCEPT ![w] = "company"]
                    /\ UNCHANGED local
               ELSE \E c \in FindCompany(Db, job.company_name) :
                    /\ pc' = [pc EXCEPT ![w] = "flush"]
                    /\ local' = [local EXCEPT ![w] =
                           UpdateLocals(Db, job_id, job, c.company_id)]

\* Lines 339-342.
update_job_company(w) ==
    /\ call[w].handler = "update_job"
    /\ CommitCompany(w)

\* Lines 345-364 after the company commit.  The commit expired existing_job:
\* loading its skills re-reads the row, and ObjectDeletedError is raised when
\* another request has deleted it meanwhile (rollback, 500).
update_job_skills(w) ==
    /\ pc[w] = "skills"
    /\ call[w].handler = "update_job"
    /\ UNCHANGED <<store_vars, call, served>>
    /\ IF FindJob(Db, call[w].job_id) = {}
       THEN /\ Leave(w, HTTPException(500, "ObjectDeletedError"))
            /\ UNCHANGED local
       ELSE /\ pc' = [pc EXCEPT ![w] = "flush"]
            /\ local' = [local EXCEPT ![w] =
                   [UpdateLocals(Db, call[w].job_id, call[w].job, local[w].company)
                       EXCEPT !.created = local[w].created]]
            /\ UNCHANGED <<session, response>>

\* The elements of the new collection that the flush INSERTs into job_skills:
\* those not in the collection as loaded, once per occurrence.
AddedSkills(ids, orig) == SelectSeq(ids, LAMBDA id : id \notin orig)

\* The rows the flush DELETEs from job_skills: loaded and no longer present.
\* (The MySQL dialect reports no multi-row rowcount: a row already gone is
\* not noticed.)
RemovedRowsKeepAll(job_id, ids, orig) == {}
RemovedRows(job_id, ids, orig) ==
    {[job_id |-> job_id, skill_id |-> s] : s \in orig \ Range(ids)}

\* Line 366: db.commit() as [ok, db].  INSERT the pending skills, UPDATE the
\* job row (StaleDataError when no row matches), DELETE then INSERT the
\* association rows.
FlushUpdatedJob(db, job_id, company_id, job, refs, orig) ==
    LET sk == InsertSkills(db, refs, <<>>)
        updated == [sk.db EXCEPT !.jobs =
                       {j \in @ : j.job_id # job_id}
                           \cup {JobRow(job_id, company_id, job)}]
        deleted == [updated EXCEPT !.job_skills =
                       @ \ RemovedRows(job_id, sk.ids, orig)]
        assoc == InsertJobSkills(deleted, job_id, AddedSkills(sk.ids, orig))
    IN  IF ~sk.ok THEN [ok |-> FALSE, db |-> Rollback(db, sk.db), error |-> "IntegrityError"]
        ELSE IF FindJob(sk.db, job_id) = {}
        THEN [ok |-> FALSE, db |-> Rollback(db, sk.db), error |-> "StaleDataError"]
        ELSE IF ~assoc.ok
        THEN [ok |-> FALSE, db |-> Rollback(db, sk.db), error |-> "IntegrityError"]
        ELSE [ok |-> TRUE, db |-> assoc.db, error |-> ""]

\* Lines 366-389.
update_job_flush(w) ==
    LET fl == FlushUpdatedJob(Db, call[w].job_id, local[w].company, call[w].job,
                              local[w].refs, local[w].orig)
    IN  /\ pc[w] = "flush"
        /\ call[w].handler = "update_job"
        /\ SetStore(fl.db)
        /\ Leave(w, IF fl.ok THEN Ok(JobResult(fl.db, call[w].job_id))
                    ELSE HTTPException(500, fl.error))
        /\ UNCHANGED <<call, local, served>>

----------------------------------------------------------------------------
(* DELETE /jobs/{job_id}                                                   *)

\* Lines 396-404: the session and the job query (404 when absent).  The
\* flush will load job.skills from this transaction's snapshot.
delete_job_begin(w, job_id, db_ok) ==
    /\ Accept(w, [NoCall EXCEPT !.handler = "delete_job", !.job_id = job_id])
    /\ IF ~db_ok
       THEN NoSession(w)
       ELSE IF FindJob(Db, job_id) = {}
       THEN /\ Leave(w, HTTPException(404, "Job not found"))
            /\ UNCHANGED <<store_vars, local>>
       ELSE /\ session' = [session EXCEPT ![w] = get_db(TRUE)]
            /\ pc' = [pc EXCEPT ![w] = "delete"]
            /\ local' = [local EXCEPT ![w].orig = SkillIdsOf(Db, job_id)]
            /\ UNCHANGED <<store_vars, response>>

\* DELETE FROM jobs WHERE job_id = ...; a row already gone only warns.
DeleteJobRowKeep(db, job_id) == db
DeleteJobRow(db, job_id) == [db EXCEPT !.jobs = {j \in @ : j.job_id # job_id}]

\* Lines 406-407: db.delete(job); db.commit() as [ok, db].  The flush DELETEs
\* the association rows of the loaded collection, then the job row; the
\* foreign key job_skills.job_id refuses the latter while a row still refers
\* to the job (IntegrityError).
FlushDeletedJob(db, job_id, orig) ==
    LET unlinked == [db EXCEPT !.job_skills =
                        @ \ {[job_id |-> job_id, skill_id |-> s] : s \in orig}]
    IN  IF \E a \in unlinked.job_skills : a.job_id = job_id
        THEN [ok |-> FALSE, db |-> db]
        ELSE [ok |-> TRUE, db |-> DeleteJobRow(unlinked, job_id)]

\* Lines 406-419.
delete_job_commit(w) ==
    LET fl == FlushDeletedJob(Db, call[w].job_id, local[w].orig)
    IN  /\ pc[w] = "delete"
        /\ SetStore(fl.db)
        /\ Leave(w, IF fl.ok THEN Ok([job_id |-> call[w].job_id])
                    ELSE HTTPException(500, "IntegrityError"))
        /\ UNCHANGED <<call, local, served>>

----------------------------------------------------------------------------
(* A query or commit of a mutation raises (connection lost, lock timeout,  *)
(* ...): `except Exception: db.rollback(); raise HTTPException(500)`.      *)

raise_unexpected(w) ==
    /\ pc[w] \in {"company", "skills", "flush", "delete"}
    /\ Leave(w, HTTPException(500, "OperationalError"))
    /\ UNCHANGED <<store_vars, call, local, served>>

\* The response has been sent: the worker is free for the next request.
respond(w) ==
    /\ pc[w] = "done"
    /\ pc' = [pc EXCEPT ![w] = "idle"]
    /\ call' = [call EXCEPT ![w] = NoCall]
    /\ local' = [local EXCEPT ![w] = NoLocal]
    /\ response' = [response EXCEPT ![w] = NoResponse]
    /\ session' = [session EXCEPT ![w] = "none"]
    /\ UNCHANGED <<store_vars, served>>

----------------------------------------------------------------------------
(* GET /health                                                             *)

\* Lines 45-56: never raises; a failure is a status field of the payload.
health_check(w, faults) ==
    /\ Accept(w, [NoCall EXCEPT !.handler = "health_check", !.faults = faults])
    /\ pc' = [pc EXCEPT ![w] = "done"]
    /\ session' = [session EXCEPT ![w] = db_close(get_db("session" \notin faults))]
    /\ response' = [response EXCEPT ![w] =
           IF faults = {}
           THEN Ok([status |-> "healthy", jobs |-> Cardinality(jobs)])
           ELSE Ok([status |-> "error", jobs |-> 0])]
    /\ UNCHANGED <<store_vars, local>>

----------------------------------------------------------------------------
(* GET /jobs                                                               *)

\* Text is a sequence of characters; lower() as MySQL applies it for ilike.
LowerChar(c) ==
    CASE c = "A" -> "a" [] c = "B" -> "b" [] c = "D" -> "d" [] OTHER -> c

Lower(text) == [i \in 1..Len(text) |-> LowerChar(text[i])]

\* text LIKE '%pat%'
Contains(text, pat) ==
    \E i \in 0..(Len(text) - Len(pat)) : SubSeq(text, i + 1, i + Len(pat)) = pat

\* column.ilike(f"%{search}%"): lower(column) LIKE lower(pattern)
ilike(text, search) == Contains(Lower(text), Lower(search))

\* Lines 174-179: `if search:` skips None and the empty string.
Matching(db, search) ==
    IF search = None \/ search = Some(<<>>)
    THEN db.jobs
    ELSE {j \in db.jobs : ilike(j.job_title, search[1]) \/ ilike(j.location, search[1])}

\* The orders in which the engine may return a set of rows when the query
\* has no ORDER BY.
Orderings(rows) ==
    {o \in [1..Cardinality(rows) -> rows] : \A i, j \in DOMAIN o : o[i] = o[j] => i = j}

\* q.offset(skip).limit(limit) over the rows in the engine's order.
Window(order, skip, limit) ==
    SubSeq(order, skip + 1, IF skip + limit < Len(order) THEN skip + limit ELSE Len(order))

\* Lines 197-239: the projection of one job (the alias keys repeat job_title,
\* location, min_salary and employment_type under other names).
job_dict(db, j) ==
    [job_id |-> j.job_id, job_title |-> j.job_title, location |-> j.location,
     min_salary |-> j.min_salary, work_year |-> j.work_year,
     company |-> CompanyNameOf(db, j.company_id),
     skills |-> SkillNamesOf(db, j.job_id)]

\* Line 154: `limit: int = 100`.
DEFAULT_LIMIT == 100

\* Lines 161-252.  skip and limit are plain ints: nothing validates them.  A
\* negative LIMIT or OFFSET is a syntax error of the engine, raised by
\* .all() after q.count() has run; every exception ends in `return []`.
get_jobs_list(w, search, skip, limit, faults, order) ==
    /\ Accept(w, [NoCall EXCEPT !.handler = "get_jobs_list", !.search = search,
                                !.skip = skip, !.limit = limit, !.faults = faults])
    /\ order \in Orderings(Matching(Db, search))
    /\ pc' = [pc EXCEPT ![w] = "done"]
    /\ session' = [session EXCEPT ![w] = db_close(get_db("session" \notin faults))]
    /\ response' = [response EXCEPT ![w] =
           IF faults # {} \/ skip < 0 \/ limit < 0
           THEN Ok(<<>>)
           ELSE Ok([i \in 1..Len(Window(order, skip, limit)) |->
                       job_dict(Db, Window(order, skip, limit)[i])])]
    /\ local' = [local EXCEPT ![w].queried = "session" \notin faults]
    /\ UNCHANGED store_vars

----------------------------------------------------------------------------
(* GET /analytics/summary                                                  *)

\* Lines 62-69.
defaults ==
    [total_jobs |-> 0, avg_salary |-> 0, top_skills |-> <<>>, salary_trend |-> <<>>,
     work_setting |-> {}, company_size |-> {}]

\* The queries of the handler, any of which may raise ("session": get_db
\* returns None).
SummaryQueries == {"count", "avg", "skills", "trend", "work_setting", "company_size"}

RECURSIVE Sum(_)
Sum(rows) ==
    IF rows = {} THEN 0
    ELSE LET r == CHOOSE x \in rows : TRUE
         IN  r.min_salary[1] + Sum(rows \ {r})

\* func.avg(models.Job.min_salary) over a set of jobs: NULLs are skipped, and
\* the average of no value is NULL.  The exact mean, as [sum, n].
Avg(rows) ==
    LET valued == {j \in rows : j.min_salary # None}
    IN  IF valued = {} THEN None
        ELSE Some([sum |-> Sum(valued), n |-> Cardinality(valued)])

\* int(x) of a number: truncation toward zero.  (MySQL returns the mean as a
\* DECIMAL with four more digits; rounding there cannot reach the next
\* integer with fewer than 20000 rows.)
ToInt(q) == IF q.sum >= 0 THEN q.sum \div q.n ELSE -((-q.sum) \div q.n)

\* Line 85 and line 135: int(avg or 0).
avg_salary(db) == IF Avg(db.jobs) = None THEN 0 ELSE ToInt(Avg(db.jobs)[1])

\* Lines 90-100: per skill name the number of association rows, for the
\* skills that have one.
SkillCounts(db) ==
    {[name |-> s.skill_name,
      count |-> Cardinality({a \in db.job_skills : a.skill_id = s.skill_id})] :
        s \in {t \in db.skills : \E a \in db.job_skills : a.skill_id = t.skill_id}}

TOP_SKILLS == 10

\* ... ordered by count descending (ties in the engine's order), the first 10.
TopSkills(db) ==
    {SubSeq(o, 1, IF Len(o) < TOP_SKILLS THEN Len(o) ELSE TOP_SKILLS) :
        o \in {p \in Orderings(SkillCounts(db)) :
                 \A i, j \in DOMAIN p : i < j => p[i].count >= p[j].count}}

\* A finite set of integers in ascending order.
RECURSIVE Ascending(_)
Ascending(S) ==
    IF S = {} THEN <<>>
    ELSE LET m == CHOOSE x \in S : \A y \in S : x <= y
         IN  <<m>> \o Ascending(S \ {m})

\* Lines 107-112: per non-NULL work_year the average min_salary, by year.
Trend(db) ==
    LET years == Ascending({j.work_year[1] : j \in {k \in db.jobs : k.work_year # None}})
    IN  [i \in 1..Len(years) |->
            [year |-> years[i],
             avg |-> Avg({j \in db.jobs : j.work_year = Some(years[i])})]]

\* Lines 116-130: per non-NULL value of a column the number of jobs.
Distribution(db, column) ==
    {[name |-> v[1], count |-> Cardinality({j \in db.jobs : j[column] = v})] :
        v \in {j[column] : j \in {k \in db.jobs : k[column] # None}}}

\* Lines 133-140, when nothing raises.
Summary(db, top) ==
    [total_jobs |-> Cardinality(db.jobs),
     avg_salary |-> avg_salary(db),
     top_skills |-> top,
     salary_trend |-> [i \in 1..Len(Trend(db)) |->
                          [year |-> Trend(db)[i].year, salary |-> ToInt(Trend(db)[i].avg[1])]],
     work_setting |-> Distribution(db, "work_setting"),
     company_size |-> Distribution(db, "company_size")]

\* Line 137: int(s[1]) raises TypeError when a year has no min_salary at all.
TrendRaises(db) == \E i \in 1..Len(Trend(db)) : Trend(db)[i].avg = None

\* Lines 71-151 as the value returned: `top` is the engine's answer to the
\* top-skills query, `faults` the queries that raise.  The skills query has
\* a handler of its own (lines 102-104); every other exception ends in
\* `return defaults`.
summary_result_uncaught(db, faults, top) ==
    IF "session" \in faults \/ db.jobs = {} \/ TrendRaises(db) THEN defaults
    ELSE Summary(db, IF "skills" \in faults THEN <<>> ELSE top)
summary_result(db, faults, top) ==
    IF "session" \in faults THEN defaults
    ELSE IF "count" \in faults THEN defaults
    ELSE IF db.jobs = {} THEN defaults
    ELSE IF faults \ {"skills"} # {} THEN defaults
    ELSE IF TrendRaises(db) THEN defaults
    ELSE Summary(db, IF "skills" \in faults THEN <<>> ELSE top)

get_analytics_summary(w, faults, top) ==
    /\ Accept(w, [NoCall EXCEPT !.handler = "get_analytics_summary", !.faults = faults])
    /\ top \in TopSkills(Db)
    /\ pc' = [pc EXCEPT ![w] = "done"]
    /\ session' = [session EXCEPT ![w] = db_close(get_db("session" \notin faults))]
    /\ response' = [response EXCEPT ![w] = Ok(summary_result(Db, faults, top))]
    /\ local' = [local EXCEPT ![w].queried = "session" \notin faults]
    /\ UNCHANGED store_vars

----------------------------------------------------------------------------
(* Inputs.                                                                 *)

Title == <<"D", "a">>
City == <<"b">>

\* What may go wrong in health_check and get_jobs_list: get_db returns
\* None, or a query raises.
ReadFaults == {{}, {"session"}, {"query"}}

\* Payloads of the concurrent specification.
Payloads ==
    {JobCreate(Title, City, Some(50000), c, Some("Remote"), None, Some("M"), s) :
        c \in {Some("acme"), None}, s \in {<<>>, <<"x">>, <<"x", "y">>}}

\* Payloads of the sequential specification: every skill list of up to two
\* of three names, and one list that repeats a name.
SkillNames == {"x", "y", "z"}
SkillLists == {<<>>} \cup {<<a>> : a \in SkillNames}
                  \cup {p \in {<<a, b>> : a \in SkillNames, b \in SkillNames} :
                            p[1] # p[2]}
                  \cup {<<"x", "x">>}

SeqPayloads ==
    {JobCreate(Title, City, Some(50000), c, Some("Remote"), Some(2023), Some("M"), s) :
        c \in {Some("acme"), None}, s \in SkillLists}

\* The job ids a request may name: those handed out so far and the next one.
JobIds == 1..autoinc.jobs

\* The store after a POST /jobs that runs alone and succeeds.
PostTo(db, job) ==
    IF FindCompany(db, job.company_name) = {}
    THEN LET c == InsertCompany(db, job.company_name)
         IN  FlushNewJob(c.db, c.id, job, LookupSkills(c.db, job.skills)).db
    ELSE FlushNewJob(db, (CHOOSE c \in FindCompany(db, job.company_name) : TRUE).company_id,
                     job, LookupSkills(db, job.skills)).db

\* The store after a sequence of such POSTs on the empty store.
RECURSIVE Seeded(_)
Seeded(posts) ==
    IF posts = <<>> THEN EmptyDb
    ELSE PostTo(Seeded(SubSeq(posts, 1, Len(posts) - 1)), posts[Len(posts)])

SeqsUpTo(S, n) == UNION {[1..k -> S] : k \in 0..n}

FirstJob == JobCreate(Title, City, Some(50000), Some("acme"), Some("Remote"),
                      Some(2023), Some("M"), <<"x", "y">>)

\* create_all on a fresh schema, or a store that already holds one job.
InitialStores == {EmptyDb, Seeded(<<FirstJob>>)}

InitWorkers ==
    /\ pc = [w \in Workers |-> "idle"]
    /\ call = [w \in Workers |-> NoCall]
    /\ session = [w \in Workers |-> "none"]
    /\ local = [w \in Workers |-> NoLocal]
    /\ response = [w \in Workers |-> NoResponse]
    /\ served = 0

InitStore(db) ==
    /\ companies = db.companies
    /\ skills = db.skills
    /\ jobs = db.jobs
    /\ job_skills = db.job_skills
    /\ autoinc = db.autoinc

Init == InitWorkers /\ \E db \in InitialStores : InitStore(db)

----------------------------------------------------------------------------
(* Spec: the workers serve requests concurrently.                          *)

Next ==
    \/ \E w \in Workers, job \in Payloads, db_ok \in BOOLEAN :
           create_job_begin(w, job, db_ok)
    \/ \E w \in Workers : create_job_company(w)
    \/ \E w \in Workers : create_job_skills(w)
    \/ \E w \in Workers : create_job_flush(w)
    \/ \E w \in Workers, id \in JobIds, job \in Payloads, db_ok \in BOOLEAN :
           update_job_begin(w, id, job, db_ok)
    \/ \E w \in Workers : update_job_company(w)
    \/ \E w \in Workers : update_job_skills(w)
    \/ \E w \in Workers : update_job_flush(w)
    \/ \E w \in Workers, id \in JobIds, db_ok \in BOOLEAN : delete_job_begin(w, id, db_ok)
    \/ \E w \in Workers : delete_job_commit(w)
    \/ \E w \in Workers : raise_unexpected(w)
    \/ \E w \in Workers, faults \in ReadFaults : health_check(w, faults)
    \/ \E w \in Workers, faults \in ReadFaults, order \in Orderings(jobs) :
           get_jobs_list(w, None, 0, DEFAULT_LIMIT, faults, order)
    \/ \E w \in Workers, faults \in {{}, {"session"}, {"trend"}}, top \in TopSkills(Db) :
           get_analytics_summary(w, faults, top)
    \/ \E w \in Workers : respond(w)

Spec == Init /\ [][Next]_vars

----------------------------------------------------------------------------
(* SeqSpec: one request at a time (a request is accepted only while every  *)
(* other worker is idle), with the wider payloads.                         *)

Alone(w) == \A v \in Workers \ {w} : pc[v] = "idle"

SeqNext ==
    \/ \E w \in Workers, job \in SeqPayloads, db_ok \in BOOLEAN :
           Alone(w) /\ create_job_begin(w, job, db_ok)
    \/ \E w \in Workers : create_job_company(w)
    \/ \E w \in Workers : create_job_skills(w)
    \/ \E w \in Workers : create_job_flush(w)
    \/ \E w \in Workers, id \in JobIds, job \in SeqPayloads, db_ok \in BOOLEAN :
           Alone(w) /\ update_job_begin(w, id, job, db_ok)
    \/ \E w \in Workers : update_job_company(w)
    \/ \E w \in Workers : update_job_skills(w)
    \/ \E w \in Workers : update_job_flush(w)
    \/ \E w \in Workers, id \in JobIds, db_ok \in BOOLEAN :
           Alone(w) /\ delete_job_begin(w, id, db_ok)
    \/ \E w \in Workers : delete_job_commit(w)
    \/ \E w \in Workers : raise_unexpected(w)
    \/ \E w \in Workers : respond(w)

SeqSpec == Init /\ [][SeqNext]_vars

----------------------------------------------------------------------------
(* ListSpec: GET /jobs against a store that does not change.  A call is    *)
(* made with any parameters while no other is in progress, or repeats the  *)
(* parameters of a call another worker has answered.                       *)

ListPosts ==
    {JobCreate(Title, City, Some(50000), Some("acme"), None, None, Some("M"), <<"x">>),
     JobCreate(<<"b">>, <<"A">>, None, Some("acme"), None, None, Some("M"), <<>>)}

Searches == {None, Some(<<>>), Some(<<"A">>), Some(<<"d">>)}
Skips == {-1, 0, 1}
Limits == {-1, 0, 1, 10001}

ListInit ==
    InitWorkers /\ \E posts \in SeqsUpTo(ListPosts, MaxSeedJobs) : InitStore(Seeded(posts))

ListNext ==
    \/ \E w \in Workers, search \in Searches, skip \in Skips, limit \in Limits,
          faults \in ReadFaults, order \in Orderings(jobs) :
           Alone(w) /\ get_jobs_list(w, search, skip, limit, faults, order)
    \/ \E w \in Workers, v \in Workers, order \in Orderings(jobs) :
           /\ pc[v] = "done"
           /\ get_jobs_list(w, call[v].search, call[v].skip, call[v].limit, {}, order)
    \/ \E w \in Workers : respond(w)

ListSpec == ListInit /\ [][ListNext]_vars

----------------------------------------------------------------------------
(* StatsSpec: GET /analytics/summary, one call at a time, against a store  *)
(* that does not change.                                                   *)

StatsPosts ==
    {JobCreate(Title, City, m, Some("acme"), IF y = 2023 THEN Some("Remote") ELSE None,
               Some(y), Some("M"), IF y = 2023 THEN <<"x">> ELSE <<"x", "y">>) :
        m \in {None, Some(50000), Some(70000), Some(90000)}, y \in {2023, 2024}}

FaultSets ==
    {{}, {"session"}, {"skills", "trend"}} \cup {{q} : q \in SummaryQueries}

StatsInit ==
    InitWorkers /\ \E posts \in SeqsUpTo(StatsPosts, MaxSeedJobs) : InitStore(Seeded(posts))

StatsNext ==
    \/ \E w \in Workers, faults \in FaultSets, top \in TopSkills(Db) :
           Alone(w) /\ get_analytics_summary(w, faults, top)
    \/ \E w \in Workers : respond(w)

StatsSpec == StatsInit /\ [][StatsNext]_vars

----------------------------------------------------------------------------
(* GET /jobs/{job_id}: the handler is not among the sources; as the        *)
(* specification describes it: one projected Job, or NotFound.             *)

get_job(db, job_id) ==
    IF FindJob(db, job_id) = {}
    THEN HTTPException(404, "Job not found")
    ELSE Ok(job_dict(db, CHOOSE j \in FindJob(db, job_id) : TRUE))

----------------------------------------------------------------------------
(* Properties.                                                             *)

Done(w, handler) == pc[w] = "done" /\ call[w].handler = handler

Succeeded(w, handler) == Done(w, handler) /\ response[w].status = 200

\* C1: a handler that has finished (returned or raised, on whatever path)
\* holds no open session; a session is open only while its handler runs.
C1_SessionReleased ==
    \A w \in Workers :
        /\ pc[w] = "done" => session[w] # "open"
        /\ session[w] = "open" => pc[w] \in {"company", "skills", "flush", "delete"}

\* C1 witness: two handlers have finished after obtaining a session, one by
\* NotFound and one by an exception turned into a 500.
C1_Witness ==
    \E w, v \in Workers :
        /\ pc[w] = "done" /\ session[w] = "closed" /\ response[w].status = 404
        /\ pc[v] = "done" /\ session[v] = "closed" /\ response[v].status = 500

\* C2: once DELETE /jobs/{id} has succeeded, GET /jobs/{id} answers NotFound
\* and no row of job_skills carries that job id.
C2_DeletedIsGone ==
    \A w \in Workers :
        Succeeded(w, "delete_job") =>
            /\ get_job(Db, call[w].job_id).status = 404
            /\ \A a \in job_skills : a.job_id # call[w].job_id

\* C2 witness: a DELETE has succeeded on a job that had skills associated.
C2_Witness ==
    \E w \in Workers : Succeeded(w, "delete_job") /\ local[w].orig # {}

\* C3: after a successful PUT /jobs/{id} with skill list S, run on its own,
\* the skills associated with the job are exactly the names in S, and the
\* response lists the same.
C3_SkillsReplaced ==
    \A w \in Workers :
        Succeeded(w, "update_job") =>
            /\ SkillNamesOf(Db, call[w].job_id) = Range(call[w].job.skills)
            /\ response[w].body.skills = Range(call[w].job.skills)

\* C3 witness: a PUT with [y, z] has succeeded on a job that had {x, y}.
C3_Witness ==
    \E w \in Workers :
        /\ Succeeded(w, "update_job")
        /\ call[w].job.skills = <<"y", "z">>
        /\ {s.skill_name : s \in {t \in skills : t.skill_id \in local[w].orig}} = {"x", "y"}

JobExists(id) == \E j \in jobs : j.job_id = id

CompaniesNamed(name) == {c \in companies : c.company_name = name}

\* C4: with requests served one after another, no two rows of companies
\* share a name, and a job that POST /jobs has created refers to the one row
\* that carries the company name of its payload.
C4_FindOrCreateCompany ==
    /\ \A c, d \in companies : c.company_name = d.company_name => c = d
    /\ \A w \in Workers :
           Succeeded(w, "create_job") =>
               /\ Cardinality(CompaniesNamed(call[w].job.company_name)) = 1
               /\ response[w].body.company = call[w].job.company_name
               /\ \E j \in jobs :
                      /\ j.job_id = response[w].body.job_id
                      /\ \E c \in CompaniesNamed(call[w].job.company_name) :
                             j.company_id = Some(c.company_id)

\* C4 witness: starting from the empty store, two POSTs naming the same new
\* company have succeeded: two jobs, one company row, both jobs refer to it.
C4_Witness ==
    /\ served = 2
    /\ Cardinality(companies) = 1
    /\ Cardinality(jobs) = 2
    /\ \A j \in jobs : \E c \in companies :
           j.company_id = Some(c.company_id) /\ c.company_name = Some("acme")
    /\ \E w \in Workers : Succeeded(w, "create_job")

\* C5 (as claimed): a GET /jobs with valid skip and limit returns the
\* min(limit, matching - skip) records after the first skip matching jobs,
\* and two calls with the same parameters against the same data return the
\* same records in the same order.
C5_PaginationStable ==
    \A w, v \in Workers :
        ( /\ Done(w, "get_jobs_list") /\ call[w].faults = {}
          /\ Done(v, "get_jobs_list") /\ call[v].faults = {}
          /\ call[w].search = call[v].search
          /\ call[w].skip = call[v].skip /\ call[w].limit = call[v].limit
          /\ call[w].skip >= 0 /\ call[w].limit >= 1 /\ call[w].limit <= 10000 )
        => /\ Len(response[w].body) <= call[w].limit
           /\ \A i \in 1..Len(response[w].body) :
                  \E j \in Matching(Db, call[w].search) :
                      j.job_id = response[w].body[i].job_id
           /\ response[w].body = response[v].body

\* C6 (as claimed): a GET /jobs whose limit is outside 1..10000 or whose skip
\* is negative is answered with status 400, without querying the store.
C6_OutOfRangeRejected ==
    \A w \in Workers :
        ( /\ Done(w, "get_jobs_list")
          /\ (call[w].limit < 1 \/ call[w].limit > 10000 \/ call[w].skip < 0) )
        => response[w].status = 400 /\ ~local[w].queried

C8_NotFoundLeavesStore ==
    [][\A w \in Workers :
        /\ ( /\ pc[w] = "idle" /\ pc'[w] # "idle"
             /\ call'[w].handler \in {"update_job", "delete_job"}
             /\ session'[w] # "none"
             /\ ~JobExists(call'[w].job_id) )
           => (pc'[w] = "done" /\ response'[w].status = 404)
        /\ (response'[w].status = 404 /\ response[w].status # 404)
           => (pc[w] = "idle" /\ UNCHANGED store_vars)]_vars

\* C8 witness: a PUT has answered 404, and neither the company nor the skill
\* its payload names is in the store.
C8_Witness ==
    \E w \in Workers :
        /\ Done(w, "update_job") /\ response[w].status = 404
        /\ call[w].job.skills = <<"x">>
        /\ CompaniesNamed(call[w].job.company_name) = {}
        /\ skills = {}

SameRows ==
    /\ companies' = companies /\ skills' = skills
    /\ jobs' = jobs /\ job_skills' = job_skills

\* C9: under every interleaving, no two rows of companies and no two rows of
\* skills carry the same name; and a request whose INSERT meets a name that
\* another request has committed since its lookup ends there with a 500 and
\* changes no row (it does not look the name up again).
C9_RaceLoserFails ==
    /\ [](/\ \A c, d \in companies :
                (c.company_name # None /\ c.company_name = d.company_name) => c = d
          /\ \A s, t \in skills : s.skill_name = t.skill_name => s = t)
    /\ [][\A w \in Workers :
            /\ ( /\ pc[w] = "company" /\ pc'[w] # "company"
                 /\ call[w].job.company_name # None
                 /\ CompaniesNamed(call[w].job.company_name) # {} )
               => (pc'[w] = "done" /\ response'[w].status = 500 /\ SameRows)
            /\ ( /\ pc[w] = "flush" /\ pc'[w] # "flush"
                 /\ \E i \in 1..Len(local[w].refs) :
                        /\ local[w].refs[i].new
                        /\ \E s \in skills : s.skill_name = local[w].refs[i].name )
               => (pc'[w] = "done" /\ response'[w].status = 500 /\ SameRows)]_vars

\* C9 witness: a POST that did not find its company has lost the race: its
\* INSERT raised IntegrityError, it answered 500, and the row of the winner
\* is in the store.
C9_Witness ==
    \E w \in Workers :
        /\ Done(w, "create_job")
        /\ response[w] = HTTPException(500, "IntegrityError")
        /\ local[w].company = 0
        /\ call[w].job.company_name # None
        /\ Cardinality(CompaniesNamed(call[w].job.company_name)) = 1

\* C10 (as claimed): when nothing raises, avg_salary is the arithmetic mean
\* of min_salary over the jobs that have one, and 0 on an empty table.
C10_AvgIsMean ==
    \A w \in Workers :
        (Done(w, "get_analytics_summary") /\ call[w].faults = {}) =>
            /\ jobs = {} => response[w].body.avg_salary = 0
            /\ Avg(jobs) # None =>
                   response[w].body.avg_salary * Avg(jobs)[1].n = Avg(jobs)[1].sum

\* The step in which a POST /jobs or PUT /jobs/{id} comes to answer 500.
Fails(w) ==
    /\ call'[w].handler \in {"create_job", "update_job"}
    /\ response'[w].status = 500 /\ response[w].status # 500

\* The Company row the request has committed in `if not company:`, if any.
CreatedCompany(w) ==
    {c \in companies' : local[w].created /\ c.company_id = local[w].company}

====
